---- MODULE Spec2Model ----
(***************************************************************************)
(* A model of the retrieval pipeline of multi_doc_chat: RAGService         *)
(* (rag_service.py) over a ModelLoader (model_loader.py), the files it     *)
(* persists (index.bin, docs.txt), and the request handlers that drive it  *)
(* (main.py, localhost/main.py, hf_space/app.py).                          *)
(*                                                                         *)
(* Texts are sequences of characters.  An embedding is a tuple of integers *)
(* and the index backend is a flat L2 index, as faiss.IndexFlatL2 is.      *)
(***************************************************************************)
EXTENDS Integers, Sequences, FiniteSets, TLC

(***************************************************************************)
(* Bounds of the model.                                                    *)
(***************************************************************************)
MaxDocs == 3        \* most texts the store, and most vectors the index, grow to by ingests
MaxBatch == 2       \* longest batch handed to ingest_documents
MaxK == 2           \* largest top_k a caller asks for
NumReqs == 2        \* requests an entry point is sent
MaxFiles == 2       \* most files of one upload

(***************************************************************************)
(* Characters and texts.                                                   *)
(***************************************************************************)
SP == "SP"          \* a space
NL == "NL"          \* "\n"
CR == "CR"          \* "\r"

Whitespace == {SP, NL, CR}

\* The texts callers ingest: a plain one, and one with a carriage return in
\* it (a line of a file with Windows or old Mac line ends).
Texts == { <<"a">>, <<"a", CR, "b">> }

\* The questions callers ask.
Questions == { <<"a">>, <<"b", "b">> }

\* Batches of at most MaxBatch texts, the empty batch included.
RECURSIVE SeqsUpTo(_, _)
SeqsUpTo(S, n) ==
    IF n = 0 THEN { <<>> }
    ELSE LET shorter == SeqsUpTo(S, n - 1)
         IN  shorter \cup { Append(s, x) : s \in { t \in shorter : Len(t) = n - 1 }, x \in S }

Batches == SeqsUpTo(Texts, MaxBatch)

\* The dimensions an embedding backend may have; 0 stands for "no embedder".
Dims == {1, 2}

(***************************************************************************)
(* The state.                                                              *)
(***************************************************************************)
VARIABLES
    proc,           \* "up" while a process runs, "down" after a crash
    documents,      \* RAGService.documents
    loaderDocs,     \* ModelLoader.documents
    aliased,        \* RAGService.documents and ModelLoader.documents are one list object
    index,          \* ModelLoader.index: [d, vecs]; d = 0 is None
    embedder,       \* ModelLoader.embedder: its output dimension; 0 is None
    llm,            \* ModelLoader.llm is not None
    diskIndex,      \* faiss_index/index.bin: [d, vecs]; d = 0 is "no such file"
    diskDocs,       \* faiss_index/docs.txt: [exists, data]
    ret,            \* what the last call on the service returned or raised
    ingested,       \* some ingest_documents call has completed without raising
    persisted,      \* the store and the index the last complete _save_index wrote
    app,            \* the entry point that serves: "main", "localhost" or "hf_space"
    lock,           \* STATE_LOCK: the request that holds it, 0 when free
    running,        \* the request whose coroutine the event loop is running, 0 when none
    sessions,       \* SESSIONS: per session id the length of its transcript, -1 when absent
    h,              \* per request: where its handler is, its inputs and locals
    RAG,            \* the service data_ingestion.py makes when imported, and its folder
    chunked         \* the last call of chunk_text: its arguments and what it returned

svcVars == <<proc, documents, loaderDocs, aliased, index, embedder, llm,
             diskIndex, diskDocs, ret, ingested>>

\* What the actions of the service do not touch.
handlerVars == <<app, lock, running, sessions, h>>

\* What lives in the modules beside the service and the entry points.
libVars == <<RAG, chunked>>

offService == <<persisted, handlerVars, libVars>>

vars == <<svcVars, offService>>

NoIndex == [d |-> 0, vecs |-> <<>>]
NoFile == [exists |-> FALSE, data |-> <<>>]
NoAnswer == [kind |-> "none", context |-> <<>>, question |-> <<>>]
NothingPersisted == [valid |-> FALSE, documents |-> <<>>, index |-> NoIndex]
NoRet == [op |-> "none", raised |-> "none", batch |-> <<>>, k |-> 0,
          indices |-> <<>>, chunks |-> <<>>, answer |-> NoAnswer]

\* No call of chunk_text has been made.
NoChunking == [called |-> FALSE, text |-> <<>>, chunk_size |-> 0, overlap |-> 0,
               chunks |-> <<>>]

\* The service create_rag_service() makes over a folder that holds nothing,
\* with that folder's index.bin and docs.txt.
NoRag == [documents |-> <<>>, index |-> NoIndex, diskIndex |-> NoIndex,
          diskDocs |-> NoFile]

\* data_ingestion.py has made its RAG over an empty folder of its own, and
\* chunk_text has not been called.
NoLib ==
    /\ RAG = NoRag
    /\ chunked = NoChunking

\* The requests the entry point is sent; a session is named after the
\* request that created it.
Reqs == 1..NumReqs

\* A request that has not arrived.
NoRequest == [pc |-> "idle", kind |-> "none", files |-> <<>>, sid |-> 0,
              msg |-> <<>>, texts |-> <<>>, raised |-> "none", resp |-> "none"]

\* No entry point serves: the service is driven directly.
NoServer ==
    /\ app = "none"
    /\ lock = 0
    /\ running = 0
    /\ sessions = [r \in Reqs |-> -1]
    /\ h = [r \in Reqs |-> NoRequest]

(***************************************************************************)
(* Python lists: 0-based indexing, negative indices counting from the end.  *)
(***************************************************************************)
\* lst[i] is defined (Python raises IndexError otherwise).
PyIndexOk(lst, i) == -Len(lst) <= i /\ i < Len(lst)

\* lst[i]
PyIndex(lst, i) == IF i >= 0 THEN lst[i + 1] ELSE lst[Len(lst) + i + 1]

(***************************************************************************)
(* The embedding backend: embedder.encode(texts) returns an (n, d) array.  *)
(* A text's vector is injective in the text, so that "vector i embeds text *)
(* i" can be told from the vectors alone.                                  *)
(***************************************************************************)
CharCode(c) ==
    CASE c = "a" -> 1
      [] c = "b" -> 2
      [] c = SP  -> 3
      [] c = NL  -> 4
      [] c = CR  -> 5
      [] OTHER   -> 6

RECURSIVE TextCode(_)
TextCode(t) == IF t = <<>> THEN 0 ELSE CharCode(Head(t)) + 7 * TextCode(Tail(t))

Vec(t, d) == [i \in 1..d |-> IF i = 1 THEN TextCode(t) ELSE Len(t)]

\* ModelLoader.embed with an embedder of dimension d (d > 0).
Encode(texts, d) == [d |-> d, rows |-> [i \in 1..Len(texts) |-> Vec(texts[i], d)]]

(***************************************************************************)
(* The index backend (faiss.IndexFlatL2).                                  *)
(***************************************************************************)
\* Squared L2 distance of two vectors of one dimension.
RECURSIVE SumSq(_, _, _)
SumSq(u, v, i) == IF i = 0 THEN 0 ELSE (u[i] - v[i]) * (u[i] - v[i]) + SumSq(u, v, i - 1)

L2(u, v) == SumSq(u, v, Len(u))

\* The 0-based position, among those of S, of the vector nearest to q; ties
\* go to the lowest position.
Nearest(vecs, q, S) ==
    CHOOSE i \in S : \A j \in S :
        \/ L2(vecs[i + 1], q) < L2(vecs[j + 1], q)
        \/ L2(vecs[i + 1], q) = L2(vecs[j + 1], q) /\ i <= j

\* index.search(q, k)[1][0]: the k nearest positions by ascending distance,
\* filled with -1 where the index holds fewer than k vectors.
RECURSIVE Neighbours(_, _, _, _)
Neighbours(vecs, q, S, k) ==
    IF k = 0 THEN <<>>
    ELSE IF S = {} THEN <<-1>> \o Neighbours(vecs, q, S, k - 1)
    ELSE LET i == Nearest(vecs, q, S)
         IN  <<i>> \o Neighbours(vecs, q, S \ {i}, k - 1)

BackendSearch(idx, q, k) == Neighbours(idx.vecs, q, 0 .. Len(idx.vecs) - 1, k)

\* index.add(embeddings): faiss asserts that the array's second dimension is
\* the index's, and appends the rows.
IndexAdd(idx, embs) ==
    IF embs.d # idx.d
    THEN [raised |-> "AssertionError", index |-> idx]
    ELSE [raised |-> "none", index |-> [idx EXCEPT !.vecs = @ \o embs.rows]]

\* An ingest that makes a new index for every batch.
IndexInit_Fresh(idx, embs) == [d |-> embs.d, vecs |-> <<>>]

\* "if self.loader.index is None: ... faiss.IndexFlatL2(dim)"
IndexInit(idx, embs) == IF idx.d = 0 THEN [d |-> embs.d, vecs |-> <<>>] ELSE idx

(***************************************************************************)
(* docs.txt: written by _save_index, read by load_index and _load_faiss.   *)
(***************************************************************************)
\* A _save_index that writes each text as it is.
ReplaceNL_Kept(t) == t

\* d.replace("\n", " ")
ReplaceNL(t) == [i \in 1..Len(t) |-> IF t[i] = NL THEN SP ELSE t[i]]

\* for d in self.documents: f.write(d.replace("\n", " ") + "\n")
RECURSIVE DocsFileData(_)
DocsFileData(docs) ==
    IF docs = <<>> THEN <<>>
    ELSE ReplaceNL(Head(docs)) \o <<NL>> \o DocsFileData(Tail(docs))

\* open(doc_path, "r") reads in universal-newlines mode: "\r\n" and a lone
\* "\r" both arrive as "\n".
RECURSIVE UniversalNewlines(_)
UniversalNewlines(data) ==
    IF data = <<>> THEN <<>>
    ELSE IF Head(data) = CR
         THEN IF Len(data) >= 2 /\ data[2] = NL
              THEN <<NL>> \o UniversalNewlines(Tail(Tail(data)))
              ELSE <<NL>> \o UniversalNewlines(Tail(data))
         ELSE <<Head(data)>> \o UniversalNewlines(Tail(data))

\* f.readlines(): each line with its "\n"; a last line without one counts.
RECURSIVE ReadLinesFrom(_, _)
ReadLinesFrom(data, cur) ==
    IF data = <<>> THEN (IF cur = <<>> THEN <<>> ELSE <<cur>>)
    ELSE IF Head(data) = NL
         THEN <<Append(cur, NL)>> \o ReadLinesFrom(Tail(data), <<>>)
         ELSE ReadLinesFrom(Tail(data), Append(cur, Head(data)))

ReadLines(data) == ReadLinesFrom(UniversalNewlines(data), <<>>)

\* str.strip()
RECURSIVE LStrip(_)
LStrip(t) == IF t # <<>> /\ Head(t) \in Whitespace THEN LStrip(Tail(t)) ELSE t

RECURSIVE RStrip(_)
RStrip(t) ==
    IF t # <<>> /\ t[Len(t)] \in Whitespace THEN RStrip(SubSeq(t, 1, Len(t) - 1)) ELSE t

Strip(t) == RStrip(LStrip(t))

\* [line.strip() for line in f.readlines()]
LoadDocsFile(data) ==
    LET lines == ReadLines(data)
    IN  [i \in 1..Len(lines) |-> Strip(lines[i])]

(***************************************************************************)
(* ModelLoader: search, chat, answer_from_rag.                             *)
(***************************************************************************)
DefaultTopK == 3

\* "if idx < len(self.documents)"
InBounds(i, docs) == i < Len(docs)

\* The loop of ModelLoader.search over the positions the backend returned.
RECURSIVE Collect(_, _)
Collect(docs, indices) ==
    IF indices = <<>> THEN [raised |-> "none", chunks |-> <<>>]
    ELSE LET i == Head(indices)
         IN  IF InBounds(i, docs)
             THEN IF ~PyIndexOk(docs, i)
                  THEN [raised |-> "IndexError", chunks |-> <<>>]
                  ELSE LET rest == Collect(docs, Tail(indices))
                       IN  [raised |-> rest.raised,
                            chunks |-> IF rest.raised = "none"
                                       THEN <<PyIndex(docs, i)>> \o rest.chunks
                                       ELSE <<>>]
             ELSE Collect(docs, Tail(indices))

\* ModelLoader.search(query, top_k) on a loader with index idx, documents
\* docs and an embedder of dimension emb.
Search(idx, docs, emb, q, k) ==
    IF idx.d = 0
    THEN [raised |-> "none", indices |-> <<>>, chunks |-> <<>>]
    ELSE IF emb = 0
    THEN [raised |-> "RuntimeError", indices |-> <<>>, chunks |-> <<>>]
    ELSE LET qv == Encode(<<q>>, emb)
         IN  IF qv.d # idx.d
             THEN [raised |-> "AssertionError", indices |-> <<>>, chunks |-> <<>>]
             ELSE LET indices == BackendSearch(idx, qv.rows[1], k)
                      got == Collect(docs, indices)
                  IN  [raised |-> got.raised, indices |-> indices, chunks |-> got.chunks]

\* "\n".join(context_chunks)
RECURSIVE JoinNL(_)
JoinNL(chunks) ==
    IF chunks = <<>> THEN <<>>
    ELSE IF Len(chunks) = 1 THEN Head(chunks)
    ELSE Head(chunks) \o <<NL>> \o JoinNL(Tail(chunks))

\* ModelLoader.chat(prompt): the placeholder without a local LLM, else the
\* text the LLM generates for the prompt.
Chat(hasLlm, context, question) ==
    IF ~hasLlm
    THEN [kind |-> "placeholder", context |-> <<>>, question |-> <<>>]
    ELSE [kind |-> "generated", context |-> context, question |-> question]

\* ModelLoader.answer_from_rag(query, max_tokens)
AnswerFromRag(idx, docs, emb, hasLlm, q) ==
    LET found == Search(idx, docs, emb, q, DefaultTopK)
    IN  [raised |-> found.raised, indices |-> found.indices, chunks |-> found.chunks,
         answer |-> IF found.raised = "none"
                    THEN Chat(hasLlm, JoinNL(found.chunks), q)
                    ELSE NoAnswer]

\* RAGService.query(question, top_k, max_tokens)
QueryService(idx, docs, emb, hasLlm, q, top_k) == AnswerFromRag(idx, docs, emb, hasLlm, q)

(***************************************************************************)
(* RAGService: ingest_documents, _save_index, load_index.                  *)
(***************************************************************************)
\* self.documents.extend(texts)
StoreExtend(docs, texts) == docs \o texts

\* RAGService.ingest_documents(texts) up to its call of _save_index: the
\* store and the index it leaves, what it raised, and whether it went on to
\* save.
IngestDocuments(docs, idx, emb, texts) ==
    IF texts = <<>>
    THEN [raised |-> "none", documents |-> docs, index |-> idx, saves |-> FALSE]
    ELSE LET docs1 == StoreExtend(docs, texts)
         IN  IF emb = 0
             THEN [raised |-> "RuntimeError", documents |-> docs1, index |-> idx,
                   saves |-> FALSE]
             ELSE LET embs == Encode(texts, emb)
                      added == IndexAdd(IndexInit(idx, embs), embs)
                  IN  [raised |-> added.raised, documents |-> docs1,
                       index |-> added.index, saves |-> added.raised = "none"]

\* The points of _save_index at which the process may die.
CrashPoints == {"index_written", "docs_opened"}

\* RAGService._save_index(): index.bin is written first, then docs.txt is
\* opened for writing (which empties it) and written.  upTo = "end" is the
\* complete call.
SaveIndex(idx, docs, dIndex, dDocs, upTo) ==
    IF idx.d = 0
    THEN [diskIndex |-> dIndex, diskDocs |-> dDocs]
    ELSE [diskIndex |-> idx,
          diskDocs |-> CASE upTo = "index_written" -> dDocs
                         [] upTo = "docs_opened" -> [exists |-> TRUE, data |-> <<>>]
                         [] OTHER -> [exists |-> TRUE, data |-> DocsFileData(docs)]]

\* create_rag_service(): ModelLoader.__init__ (with _load_faiss),
\* RAGService.__init__ (which takes the loader's list as its own), then
\* RAGService.load_index.
CreateRagService(dIndex, dDocs) ==
    LET loaded == IF dIndex.d # 0 /\ dDocs.exists THEN LoadDocsFile(dDocs.data) ELSE <<>>
    IN  [index |-> dIndex,
         loaderDocs |-> loaded,
         documents |-> loaded,
         aliased |-> ~(dIndex.d # 0 /\ dDocs.exists)]

(***************************************************************************)
(* The service as one process after another over one faiss_index folder.   *)
(***************************************************************************)
Init ==
    /\ proc = "up"
    /\ documents = <<>>
    /\ loaderDocs = <<>>
    /\ aliased = TRUE
    /\ index = NoIndex
    /\ embedder \in {0} \cup Dims
    /\ llm \in BOOLEAN
    /\ diskIndex = NoIndex
    /\ diskDocs = NoFile
    /\ ret = NoRet
    /\ ingested = FALSE
    /\ persisted = NothingPersisted
    /\ NoServer
    /\ NoLib

\* rag_service.ingest_documents(texts), run to its end.
Ingest(texts) ==
    /\ proc = "up"
    /\ Len(documents) + Len(texts) <= MaxDocs
    /\ Len(index.vecs) + Len(texts) <= MaxDocs
    /\ LET r == IngestDocuments(documents, index, embedder, texts)
           saved == IF r.saves
                    THEN SaveIndex(r.index, r.documents, diskIndex, diskDocs, "end")
                    ELSE [diskIndex |-> diskIndex, diskDocs |-> diskDocs]
       IN  /\ documents' = r.documents
           /\ loaderDocs' = IF aliased THEN r.documents ELSE loaderDocs
           /\ index' = r.index
           /\ diskIndex' = saved.diskIndex
           /\ diskDocs' = saved.diskDocs
           /\ ret' = [NoRet EXCEPT !.op = "ingest", !.raised = r.raised, !.batch = texts]
           /\ ingested' = (ingested \/ r.saves)
    /\ UNCHANGED <<proc, aliased, embedder, llm>>
    /\ UNCHANGED offService

\* rag_service.ingest_documents(texts) in a process that dies inside
\* _save_index, at the point given.
IngestCrash(texts, point) ==
    /\ proc = "up"
    /\ Len(documents) + Len(texts) <= MaxDocs
    /\ Len(index.vecs) + Len(texts) <= MaxDocs
    /\ LET r == IngestDocuments(documents, index, embedder, texts)
           saved == SaveIndex(r.index, r.documents, diskIndex, diskDocs, point)
       IN  /\ r.saves
           /\ diskIndex' = saved.diskIndex
           /\ diskDocs' = saved.diskDocs
    /\ proc' = "down"
    /\ documents' = <<>>
    /\ loaderDocs' = <<>>
    /\ aliased' = TRUE
    /\ index' = NoIndex
    /\ ret' = [NoRet EXCEPT !.op = "crash", !.batch = texts]
    /\ UNCHANGED <<embedder, llm, ingested>>
    /\ UNCHANGED offService

\* The process ends (if one runs) and a new one calls create_rag_service()
\* over the same folder, with the backends its environment has.
Restart(emb, hasLlm) ==
    /\ LET s == CreateRagService(diskIndex, diskDocs)
       IN  /\ documents' = s.documents
           /\ loaderDocs' = s.loaderDocs
           /\ aliased' = s.aliased
           /\ index' = s.index
    /\ proc' = "up"
    /\ embedder' = emb
    /\ llm' = hasLlm
    /\ ret' = [NoRet EXCEPT !.op = "restart"]
    /\ UNCHANGED <<diskIndex, diskDocs, ingested>>
    /\ UNCHANGED offService

\* rag_service.query(q, top_k)
Query(q, top_k) ==
    /\ proc = "up"
    /\ LET r == QueryService(index, loaderDocs, embedder, llm, q, top_k)
       IN  ret' = [NoRet EXCEPT !.op = "query", !.raised = r.raised, !.k = top_k,
                                !.indices = r.indices, !.chunks = r.chunks,
                                !.answer = r.answer]
    /\ UNCHANGED <<proc, documents, loaderDocs, aliased, index, embedder, llm,
                   diskIndex, diskDocs, ingested>>
    /\ UNCHANGED offService

Next ==
    \/ \E texts \in Batches : Ingest(texts)
    \/ \E texts \in Batches, point \in CrashPoints : IngestCrash(texts, point)
    \/ \E emb \in {0} \cup Dims, hasLlm \in BOOLEAN : Restart(emb, hasLlm)
    \/ \E q \in Questions, top_k \in 1..MaxK : Query(q, top_k)

Spec == Init /\ [][Next]_vars

(***************************************************************************)
(* Properties of the service.                                              *)
(***************************************************************************)
IndexSize == Len(index.vecs)

\* The store and the index have one size.
SameSize == Len(documents) = IndexSize

\* Vector i is the embedding of text i, for every position of both.
Aligned ==
    /\ SameSize
    /\ \A i \in 1..IndexSize : index.vecs[i] = Vec(documents[i], index.d)

\* The last call on the service was a query with a usable embedder: there
\* is no index, or the embedder has the index's dimension.
QueriedWithEmbedder ==
    /\ ret.op = "query"
    /\ embedder # 0
    /\ (index.d = 0 \/ index.d = embedder)

Min(a, b) == IF a <= b THEN a ELSE b

\* The texts of docs at the positions of indices that lie within docs, in
\* the order of indices.
RECURSIVE TextsWithin(_, _)
TextsWithin(docs, indices) ==
    IF indices = <<>> THEN <<>>
    ELSE LET i == Head(indices)
         IN  IF 0 <= i /\ i < Len(docs)
             THEN <<docs[i + 1]>> \o TextsWithin(docs, Tail(indices))
             ELSE TextsWithin(docs, Tail(indices))

\* C1: once an ingest has succeeded, in every state of a running service
\* the Document Store holds as many texts as the Vector Index holds
\* vectors, and the text at position i is the one vector i embeds.
C1_StoreAndIndexInLockstep == (proc = "up" /\ ingested) => Aligned

\* C4: a successful ingest of a batch appends the batch to the end of the
\* store, in order, leaving what was there; the index grows by as many
\* vectors; and the store's new length is the index's new size.
C4_IngestAppendsBatch ==
    [][ (ret'.op = "ingest" /\ ret'.raised = "none" /\ ret'.batch # <<>>)
        => /\ documents' = documents \o ret'.batch
           /\ Len(index'.vecs) = IndexSize + Len(ret'.batch)
           /\ Len(documents') = Len(index'.vecs) ]_vars

\* C5: an ingest whose embeddings have another dimension than the index
\* fails, the index keeps its vectors, and the store's positions still
\* match the index's one to one.
C5_DimensionMismatchKeepsLockstep ==
    [][ (ret'.op = "ingest" /\ ret'.batch # <<>> /\ index.d # 0
         /\ embedder # 0 /\ embedder # index.d)
        => /\ ret'.raised # "none"
           /\ index' = index
           /\ (SameSize => SameSize') ]_vars

\* The positions of the store whose texts the last query put in its context.
PositionsInContext ==
    { ret.indices[n] : n \in { m \in 1..Len(ret.indices) :
                                 0 <= ret.indices[m] /\ ret.indices[m] < Len(loaderDocs) } }

\* C6: the context of a query holds at most top_k texts of the store; with
\* top_k = 1 and two texts stored, exactly one.
C6_ContextHoldsAtMostTopK ==
    (ret.op = "query" /\ ret.raised = "none")
    => /\ Cardinality(PositionsInContext) <= ret.k
       /\ (ret.k = 1 /\ Len(loaderDocs) = 2 /\ IndexSize = 2)
          => Cardinality(PositionsInContext) = 1

\* C7: search on an index of n vectors with k = DefaultTopK returns at most
\* min(n, k) texts and does not raise; what it returns are the store's
\* texts at the positions the backend gave that lie within the store, and
\* every other position, the backend's -1 included, is skipped.
C7_SearchSkipsOutOfBounds ==
    (QueriedWithEmbedder /\ index.d # 0)
    => /\ ret.raised = "none"
       /\ Len(ret.chunks) <= Min(IndexSize, DefaultTopK)
       /\ ret.chunks = TextsWithin(loaderDocs, ret.indices)

\* C8: without an index a query returns an answer made from an empty
\* context and does not raise; and a query returns an answer whenever an
\* embedder (of the index's dimension) is there.
C8_QueryReturnsAString ==
    /\ (ret.op = "query" /\ index.d = 0)
       => /\ ret.raised = "none"
          /\ ret.answer.kind \in {"placeholder", "generated"}
          /\ ret.answer.context = <<>>
    /\ QueriedWithEmbedder
       => /\ ret.raised = "none"
          /\ ret.answer.kind \in {"placeholder", "generated"}

\* C9: without an embedder a query still returns an answer, whether the
\* index is absent or loaded; and without a local LLM (the embedder usable
\* and the loader's texts there) it returns the placeholder.
C9_MissingBackendDegrades ==
    /\ (ret.op = "query" /\ embedder = 0)
       => /\ ret.raised = "none"
          /\ ret.answer.kind \in {"placeholder", "generated"}
    /\ (QueriedWithEmbedder /\ ~llm /\ (index.d # 0 => loaderDocs # <<>>))
       => /\ ret.raised = "none"
          /\ ret.answer.kind = "placeholder"

(***************************************************************************)
(* Persist, then load: _save_index followed by create_rag_service in a new *)
(* process, from any store and index a service may hold.                   *)
(***************************************************************************)
MaxTextRT == 2      \* longest text of the stores that are persisted
MaxStoreRT == 1     \* most texts of the stores that are persisted

Chars == {"a", SP, NL, CR}

TextsRT == SeqsUpTo(Chars, MaxTextRT)

StoresRT == SeqsUpTo(TextsRT, MaxStoreRT)

InitRT ==
    /\ proc = "up"
    /\ documents \in StoresRT
    /\ loaderDocs = documents
    /\ aliased = TRUE
    /\ embedder \in Dims
    /\ index \in {NoIndex} \cup { [d |-> embedder, vecs |-> Encode(documents, embedder).rows] :
                                  x \in IF documents = <<>> THEN {} ELSE {1} }
    /\ llm = FALSE
    /\ diskIndex = NoIndex
    /\ diskDocs = NoFile
    /\ ret = NoRet
    /\ ingested = FALSE
    /\ persisted = NothingPersisted
    /\ NoServer
    /\ NoLib

\* rag_service._save_index()
Persist ==
    /\ proc = "up"
    /\ LET saved == SaveIndex(index, documents, diskIndex, diskDocs, "end")
       IN  /\ diskIndex' = saved.diskIndex
           /\ diskDocs' = saved.diskDocs
    /\ persisted' = [valid |-> TRUE, documents |-> documents, index |-> index]
    /\ ret' = [NoRet EXCEPT !.op = "persist"]
    /\ UNCHANGED <<proc, documents, loaderDocs, aliased, index, embedder, llm, ingested>>
    /\ UNCHANGED <<handlerVars, libVars>>

\* A new process loads what the folder holds: create_rag_service().
Load ==
    /\ persisted.valid
    /\ LET s == CreateRagService(diskIndex, diskDocs)
       IN  /\ documents' = s.documents
           /\ loaderDocs' = s.loaderDocs
           /\ aliased' = s.aliased
           /\ index' = s.index
    /\ ret' = [NoRet EXCEPT !.op = "load"]
    /\ UNCHANGED <<proc, embedder, llm, diskIndex, diskDocs, ingested, persisted>>
    /\ UNCHANGED <<handlerVars, libVars>>

NextRT == Persist \/ Load

SpecRT == InitRT /\ [][NextRT]_vars

\* The last step loaded what a persist of an existing index wrote.
LoadedAfterPersist == ret.op = "load" /\ persisted.valid /\ persisted.index.d # 0

\* The text has none of the characters of S.
HasNone(t, S) == \A i \in 1..Len(t) : t[i] \notin S

\* The text neither starts nor ends with whitespace.
Trimmed(t) == t = <<>> \/ (t[1] \notin Whitespace /\ t[Len(t)] \notin Whitespace)

\* The text on one line: each newline a space, and the whitespace at both
\* ends dropped.
RECURSIVE DropLeading(_)
DropLeading(t) ==
    IF t = <<>> \/ Head(t) \notin Whitespace THEN t ELSE DropLeading(Tail(t))

RECURSIVE Reverse(_)
Reverse(t) == IF t = <<>> THEN <<>> ELSE Append(Reverse(Tail(t)), Head(t))

OnOneLine(t) ==
    LET spaced == [i \in 1..Len(t) |-> IF t[i] = NL THEN SP ELSE t[i]]
    IN  Reverse(DropLeading(Reverse(DropLeading(spaced))))

Max(a, b) == IF a >= b THEN a ELSE b

DefaultChunkSize == 1000
DefaultOverlap == 200

\* chunk_text: the loop from position start on.
RECURSIVE ChunkFrom(_, _, _, _)
ChunkFrom(text, start, chunk_size, overlap) ==
    IF start >= Len(text) THEN <<>>
    ELSE LET end == start + chunk_size
         IN  <<SubSeq(text, start + 1, Min(end, Len(text)))>>
             \o ChunkFrom(text, Max(end - overlap, end), chunk_size, overlap)

\* chunk_text(text, chunk_size, overlap)
ChunkText(text, chunk_size, overlap) ==
    IF text = <<>> THEN <<>> ELSE ChunkFrom(text, 0, chunk_size, overlap)

\* "chunks = chunk_text(text); if not chunks: chunks = [text]"
ChunksOf(text) ==
    LET chunks == ChunkText(text, DefaultChunkSize, DefaultOverlap)
    IN  IF chunks = <<>> THEN <<text>> ELSE chunks

\* An uploaded file: whether its name ends in .pdf, whether PdfReader reads
\* it, and the text it holds.
Files == { [pdf |-> FALSE, parses |-> TRUE, text |-> <<"a">>],
           [pdf |-> FALSE, parses |-> TRUE, text |-> <<>>],
           [pdf |-> TRUE, parses |-> FALSE, text |-> <<>>] }

ReadableText == [pdf |-> FALSE, parses |-> TRUE, text |-> <<"a">>]

RECURSIVE Repeat(_, _)
Repeat(x, n) == IF n = 0 THEN <<>> ELSE <<x>> \o Repeat(x, n - 1)

\* The uploads that are sent: no file, or up to MaxFiles files of which the
\* last is of any kind and those before it are readable text.
Uploads ==
    {<<>>} \cup { Repeat(ReadableText, n) \o <<f>> : n \in 0..(MaxFiles - 1), f \in Files }

Messages == { <<>>, <<"a">> }

\* The text pdf_to_text of hf_space/app.py returns for a PDF it fails on.
ErrorText == <<"E">>

\* The loop of upload in src/main.py over the files.  pdf_to_text calls the
\* UploadFile's read(), a coroutine function, without awaiting it, so BytesIO
\* raises, whatever the PDF holds, and the handler answers 400.
RECURSIVE MainChunks(_)
MainChunks(files) ==
    IF files = <<>> THEN [raised |-> FALSE, chunks |-> <<>>]
    ELSE LET f == Head(files)
             rest == MainChunks(Tail(files))
         IN  IF f.pdf \/ rest.raised
             THEN [raised |-> TRUE, chunks |-> <<>>]
             ELSE [raised |-> FALSE, chunks |-> ChunksOf(f.text) \o rest.chunks]

\* The loop of ingest_files in src/hf_space/app.py over the files.
RECURSIVE HfTexts(_)
HfTexts(files) ==
    IF files = <<>> THEN <<>>
    ELSE LET f == Head(files)
             txt == IF f.pdf /\ ~f.parses THEN ErrorText ELSE f.text
         IN  (IF Strip(txt) # <<>> THEN <<txt>> ELSE <<>>) \o HfTexts(Tail(files))

\* The arguments upload of src/localhost/main.py passes to
\* ingest_upload_files, and the parameters ingest_upload_files takes.
UploadCallArgs == 2
IngestUploadFilesParams == 1

\* The body of ingest_upload_files up to its first await: a PDF goes to
\* "await fileobj.read()", where the coroutine may be suspended; any other
\* file goes to "await read_text_fileobj(f)", which awaits a str.
IngestUploadFilesBody(files) ==
    IF files = <<>> THEN "ValueError"
    ELSE IF Head(files).pdf THEN "suspended"
    ELSE "TypeError"

\* An ingest_upload_files that takes the two arguments it is called with.
IngestUploadFilesCall_Bound(files) == IngestUploadFilesBody(files)

\* "await ingest_upload_files(files, rag_service)": the call itself raises
\* when the arguments do not fit the parameters.
IngestUploadFilesCall(files) ==
    IF UploadCallArgs # IngestUploadFilesParams
    THEN "TypeError"
    ELSE IngestUploadFilesBody(files)

\* A request that has been answered.
Answered(resp) == [NoRequest EXCEPT !.pc = "done", !.resp = resp]

\* The entry points whose handlers are coroutines of one event loop.
OnEventLoop == app \in {"main", "localhost"}

\* The handler of request r may start: on an event loop, only when no other
\* coroutine runs; in a worker thread, at any time.
CanStart(r, kind) ==
    /\ h[r].pc = "ready"
    /\ h[r].kind = kind
    /\ OnEventLoop => running = 0

\* The handler of request r may take its step at the given point.
CanStep(r, at) ==
    /\ h[r].pc = at
    /\ OnEventLoop => running = r

\* "with STATE_LOCK:" entered by request r, going on at the given point with
\* the given locals; the thread waits when the lock is held.
EnterLock(r, at, locals) ==
    /\ running' = r
    /\ IF lock = 0
       THEN /\ lock' = r
            /\ h' = [h EXCEPT ![r] = [locals EXCEPT !.pc = at]]
       ELSE /\ lock' = lock
            /\ h' = [h EXCEPT ![r] = [locals EXCEPT !.pc = "blocked"]]

\* The handler of request r ends with the given response, outside any lock.
Answer(r, resp) ==
    /\ h' = [h EXCEPT ![r] = Answered(resp)]
    /\ running' = IF running = r THEN 0 ELSE running

InitServe ==
    /\ proc = "up"
    /\ documents = <<>>
    /\ loaderDocs = <<>>
    /\ aliased = TRUE
    /\ index = NoIndex
    /\ embedder \in {0, 1}
    /\ llm = FALSE
    /\ diskIndex = NoIndex
    /\ diskDocs = NoFile
    /\ ret = NoRet
    /\ ingested = FALSE
    /\ persisted = NothingPersisted
    /\ app \in {"main", "localhost", "hf_space"}
    /\ lock = 0
    /\ running = 0
    /\ sessions = [r \in Reqs |-> -1]
    /\ h = [r \in Reqs |-> NoRequest]
    /\ NoLib

svcState == <<proc, documents, loaderDocs, aliased, index, embedder, llm,
              diskIndex, diskDocs, ret, ingested, persisted, libVars>>

\* A client sends request r, an upload or a chat message; the server binds
\* what it carries when the handler starts.
Arrive(r, kind) ==
    /\ h[r].pc = "idle"
    /\ h' = [h EXCEPT ![r] = [NoRequest EXCEPT !.pc = "ready", !.kind = kind]]
    /\ UNCHANGED <<app, lock, running, sessions, svcState>>

\* src/main.py upload, up to "with STATE_LOCK:".
MainUpload(r, files) ==
    /\ app = "main"
    /\ CanStart(r, "upload")
    /\ LET x == MainChunks(files)
       IN  IF files = <<>> \/ x.raised \/ x.chunks = <<>>
           THEN Answer(r, "400") /\ UNCHANGED lock
           ELSE EnterLock(r, "extend", [h[r] EXCEPT !.files = files, !.texts = x.chunks])
    /\ UNCHANGED <<app, sessions, svcState>>

\* src/main.py upload, from the end of "with STATE_LOCK:" on.
MainUploadEnd(r) ==
    /\ app = "main"
    /\ CanStep(r, "ingested")
    /\ lock' = 0
    /\ IF h[r].raised # "none"
       THEN Answer(r, "500") /\ UNCHANGED sessions
       ELSE Answer(r, "200") /\ sessions' = [sessions EXCEPT ![r] = 0]
    /\ UNCHANGED <<app, svcState>>

\* src/localhost/main.py upload, up to "with STATE_LOCK:".
LocalUpload(r, files) ==
    /\ app = "localhost"
    /\ CanStart(r, "upload")
    /\ IF files = <<>>
       THEN Answer(r, "400") /\ UNCHANGED <<lock, sessions>>
       ELSE /\ sessions' = [sessions EXCEPT ![r] = 0]
            /\ EnterLock(r, "call", [h[r] EXCEPT !.files = files])
    /\ UNCHANGED <<app, svcState>>

\* src/localhost/main.py upload: "await ingest_upload_files(files, rag_service)".
LocalUploadCall(r) ==
    /\ app = "localhost"
    /\ CanStep(r, "call")
    /\ LET out == IngestUploadFilesCall(h[r].files)
       IN  IF out = "suspended"
           THEN /\ h' = [h EXCEPT ![r].pc = "suspended"]
                /\ running' = 0
           ELSE /\ h' = [h EXCEPT ![r].pc = "ingested", ![r].raised = out]
                /\ running' = running
    /\ UNCHANGED <<app, lock, sessions, svcState>>

\* src/localhost/main.py upload, from the end of "with STATE_LOCK:" on.
LocalUploadEnd(r) ==
    /\ app = "localhost"
    /\ CanStep(r, "ingested")
    /\ lock' = 0
    /\ Answer(r, IF h[r].raised # "none" THEN "500" ELSE "200")
    /\ UNCHANGED <<app, sessions, svcState>>

\* src/hf_space/app.py ingest_files, up to the call of ingest_documents.
HfIngest(r, files) ==
    /\ app = "hf_space"
    /\ CanStart(r, "upload")
    /\ LET texts == HfTexts(files)
       IN  IF files = <<>> \/ texts = <<>>
           THEN Answer(r, "warning")
           ELSE /\ h' = [h EXCEPT ![r].pc = "extend", ![r].files = files,
                                  ![r].texts = texts]
                /\ running' = running
    /\ UNCHANGED <<app, lock, sessions, svcState>>

\* src/hf_space/app.py ingest_files, from the return of ingest_documents on.
HfIngestEnd(r) ==
    /\ app = "hf_space"
    /\ CanStep(r, "ingested")
    /\ Answer(r, IF h[r].raised # "none" THEN "error" ELSE "success")
    /\ UNCHANGED <<app, lock, sessions, svcState>>

\* chat of src/main.py and of src/localhost/main.py, up to "with STATE_LOCK:".
Chat_(r, sid, msg) ==
    /\ OnEventLoop
    /\ CanStart(r, "chat")
    /\ IF \/ sid = 0
          \/ sessions[sid] = -1
          \/ Strip(msg) = <<>>
       THEN Answer(r, "400") /\ UNCHANGED lock
       ELSE EnterLock(r, "query", [h[r] EXCEPT !.sid = sid, !.msg = Strip(msg)])
    /\ UNCHANGED <<app, sessions, svcState>>

\* chat of src/main.py and of src/localhost/main.py, from the end of
\* "with STATE_LOCK:" on; src/main.py takes the lock again, and gives it back,
\* around the two appends.
ChatEnd(r) ==
    /\ OnEventLoop
    /\ CanStep(r, "queried")
    /\ lock' = 0
    /\ IF h[r].raised # "none"
       THEN Answer(r, "500") /\ UNCHANGED sessions
       ELSE /\ Answer(r, "200")
            /\ sessions' = [sessions EXCEPT ![h[r].sid] = @ + 2]
    /\ UNCHANGED <<app, svcState>>

\* src/hf_space/app.py submit_chat, up to the call of query.
HfChat(r, msg) ==
    /\ app = "hf_space"
    /\ CanStart(r, "chat")
    /\ IF msg = <<>>
       THEN Answer(r, "history")
       ELSE /\ h' = [h EXCEPT ![r].pc = "query", ![r].msg = msg]
            /\ running' = running
    /\ UNCHANGED <<app, lock, sessions, svcState>>

\* src/hf_space/app.py submit_chat, from the return of query on.
HfChatEnd(r) ==
    /\ app = "hf_space"
    /\ CanStep(r, "queried")
    /\ Answer(r, IF h[r].raised # "none" THEN "error turn" ELSE "turn")
    /\ UNCHANGED <<app, lock, sessions, svcState>>

\* ingest_documents(texts) as the handler of request r runs it: from its
\* start to the check of the embedder.
IngestExtend(r) ==
    /\ CanStep(r, "extend")
    /\ IF h[r].texts = <<>>
       THEN /\ h' = [h EXCEPT ![r].pc = "ingested"]
            /\ UNCHANGED <<documents, loaderDocs>>
       ELSE /\ documents' = StoreExtend(documents, h[r].texts)
            /\ loaderDocs' = IF aliased THEN documents' ELSE loaderDocs
            /\ h' = IF embedder = 0
                    THEN [h EXCEPT ![r].pc = "ingested", ![r].raised = "RuntimeError"]
                    ELSE [h EXCEPT ![r].pc = "add"]
    /\ UNCHANGED <<proc, aliased, index, embedder, llm, diskIndex, diskDocs, ret,
                   ingested, persisted>>
    /\ UNCHANGED <<app, lock, running, sessions, libVars>>

\* ingest_documents(texts): the embeddings, the index made if there is none,
\* and index.add.
IngestAdd(r) ==
    /\ CanStep(r, "add")
    /\ LET embs == Encode(h[r].texts, embedder)
           added == IndexAdd(IndexInit(index, embs), embs)
       IN  /\ index' = added.index
           /\ h' = IF added.raised # "none"
                   THEN [h EXCEPT ![r].pc = "ingested", ![r].raised = added.raised]
                   ELSE [h EXCEPT ![r].pc = "save"]
    /\ UNCHANGED <<proc, documents, loaderDocs, aliased, embedder, llm, diskIndex,
                   diskDocs, ret, ingested, persisted>>
    /\ UNCHANGED <<app, lock, running, sessions, libVars>>

\* ingest_documents(texts): _save_index().
IngestSave(r) ==
    /\ CanStep(r, "save")
    /\ LET saved == SaveIndex(index, documents, diskIndex, diskDocs, "end")
       IN  /\ diskIndex' = saved.diskIndex
           /\ diskDocs' = saved.diskDocs
    /\ ingested' = TRUE
    /\ h' = [h EXCEPT ![r].pc = "ingested"]
    /\ UNCHANGED <<proc, documents, loaderDocs, aliased, index, embedder, llm, ret,
                   persisted>>
    /\ UNCHANGED <<app, lock, running, sessions, libVars>>

\* query(question) as the handler of request r runs it.
QueryRun(r) ==
    /\ CanStep(r, "query")
    /\ LET out == QueryService(index, loaderDocs, embedder, llm, h[r].msg, DefaultTopK)
       IN  /\ ret' = [NoRet EXCEPT !.op = "query", !.raised = out.raised,
                                   !.k = DefaultTopK, !.indices = out.indices,
                                   !.chunks = out.chunks, !.answer = out.answer]
           /\ h' = [h EXCEPT ![r].pc = "queried", ![r].raised = out.raised]
    /\ UNCHANGED <<proc, documents, loaderDocs, aliased, index, embedder, llm,
                   diskIndex, diskDocs, ingested, persisted>>
    /\ UNCHANGED <<app, lock, running, sessions, libVars>>

NextServe ==
    \/ \E r \in Reqs, kind \in {"upload", "chat"} : Arrive(r, kind)
    \/ \E r \in Reqs, files \in Uploads : MainUpload(r, files)
    \/ \E r \in Reqs : MainUploadEnd(r)
    \/ \E r \in Reqs, files \in Uploads : LocalUpload(r, files)
    \/ \E r \in Reqs : LocalUploadCall(r)
    \/ \E r \in Reqs : LocalUploadEnd(r)
    \/ \E r \in Reqs, files \in Uploads : HfIngest(r, files)
    \/ \E r \in Reqs : HfIngestEnd(r)
    \/ \E r \in Reqs, sid \in {0} \cup Reqs, msg \in Messages : Chat_(r, sid, msg)
    \/ \E r \in Reqs : ChatEnd(r)
    \/ \E r \in Reqs, msg \in Messages : HfChat(r, msg)
    \/ \E r \in Reqs : HfChatEnd(r)
    \/ \E r \in Reqs : IngestExtend(r)
    \/ \E r \in Reqs : IngestAdd(r)
    \/ \E r \in Reqs : IngestSave(r)
    \/ \E r \in Reqs : QueryRun(r)

SpecServe == InitServe /\ [][NextServe]_vars

\* The handler of request r is inside ingest_documents or inside query.
InService(r) == h[r].pc \in {"extend", "add", "save", "query"}

\* C2: at every entry point, a handler that is inside ingest_documents or
\* inside query holds STATE_LOCK, no two handlers are inside these operations
\* at once, and a handler about to run query finds as many texts in the store
\* as there are vectors in the index.
C2_ServiceCallsHoldTheLock ==
    /\ \A r \in Reqs : InService(r) => lock = r
    /\ \A r, q \in Reqs : InService(r) /\ InService(q) => r = q
    /\ \A r \in Reqs : h[r].pc = "query" => Len(loaderDocs) = IndexSize

\* C3: on an event loop no handler is suspended while it holds STATE_LOCK:
\* whoever holds the lock is the coroutine the loop is running, so no handler
\* ever waits for the lock and the loop's thread is never stuck on it.
C3_NoSuspensionUnderLock ==
    OnEventLoop =>
        \A r \in Reqs :
            /\ h[r].pc = "suspended" => lock # r
            /\ lock = r => running = r
            /\ h[r].pc # "blocked"

\* An upload holds the lock, its awaited call has returned to it, and a chat
\* request waits for the event loop.
C3_Witness ==
    \E r, q \in Reqs :
        /\ app = "localhost"
        /\ lock = r
        /\ h[r].pc = "ingested"
        /\ h[r].kind = "upload"
        /\ h[q].pc = "ready"
        /\ h[q].kind = "chat"

(***************************************************************************)
(* Persistence across a crash, and the life of the index.                  *)
(***************************************************************************)
\* C11: when a process has died inside _save_index, the service the next
\* process loads holds as many texts, in the store and in the loader's
\* list, as its index holds vectors.
C11_LoadAfterCrashInLockstep ==
    [][ (proc = "down" /\ proc' = "up")
        => /\ Len(documents') = Len(index'.vecs)
           /\ Len(loaderDocs') = Len(index'.vecs) ]_vars

\* The vectors of index a are the first vectors of index b, of one dimension.
GrownFrom(a, b) ==
    /\ b.d = a.d
    /\ Len(a.vecs) <= Len(b.vecs)
    /\ SubSeq(b.vecs, 1, Len(a.vecs)) = a.vecs

\* C12: an ingest that succeeds on a service without an index makes the
\* index, with the dimension and the vectors of that batch; while a process
\* runs, an index that exists stays, with its dimension and its vectors; and
\* a new process has an index exactly when index.bin exists.
C12_IndexLifecycle ==
    [][ /\ (ret'.op = "ingest" /\ ret'.raised = "none" /\ ret'.batch # <<>> /\ index.d = 0)
           => /\ index'.d = Encode(ret'.batch, embedder).d
              /\ index'.vecs = Encode(ret'.batch, embedder).rows
        /\ (proc = "up" /\ ret'.op \in {"ingest", "query"} /\ index.d # 0)
           => GrownFrom(index, index')
        /\ ret'.op = "restart"
           => (index'.d # 0 <=> diskIndex'.d # 0) ]_vars

\* A new process has loaded an index from index.bin, and its last process
\* had made that index by an ingest.
C12_Witness ==
    /\ ret.op = "restart"
    /\ ingested
    /\ index.d # 0
    /\ index = diskIndex

(***************************************************************************)
(* chunk_text, called on its own with the arguments a caller may give.     *)
(***************************************************************************)
MaxChunkText == 4   \* longest text that is chunked
MaxChunkSize == 3   \* largest chunk_size, and largest overlap

ChunkChars == {"a", "b"}

ChunkTexts == SeqsUpTo(ChunkChars, MaxChunkText)

InitChunk ==
    /\ proc = "up"
    /\ documents = <<>>
    /\ loaderDocs = <<>>
    /\ aliased = TRUE
    /\ index = NoIndex
    /\ embedder = 0
    /\ llm = FALSE
    /\ diskIndex = NoIndex
    /\ diskDocs = NoFile
    /\ ret = NoRet
    /\ ingested = FALSE
    /\ persisted = NothingPersisted
    /\ NoServer
    /\ RAG = NoRag
    /\ chunked \in { [NoChunking EXCEPT !.text = t, !.chunk_size = s, !.overlap = o] :
                     t \in ChunkTexts, s \in 1..MaxChunkSize, o \in 0..MaxChunkSize }

\* chunk_text(text, chunk_size, overlap)
CallChunkText ==
    /\ ~chunked.called
    /\ chunked' = [chunked EXCEPT !.called = TRUE,
                                  !.chunks = ChunkText(chunked.text, chunked.chunk_size,
                                                       chunked.overlap)]
    /\ UNCHANGED <<svcVars, persisted, handlerVars, RAG>>

NextChunk == CallChunkText

SpecChunk == InitChunk /\ [][NextChunk]_vars

\* text[off : off + size]
Window(text, off, size) == SubSeq(text, off + 1, Min(off + size, Len(text)))

\* chunk_text has returned, having been given 0 <= overlap < chunk_size.
ChunkedWithinSize ==
    /\ chunked.called
    /\ chunked.overlap < chunked.chunk_size

\* C13: with 0 <= overlap < size, chunk i is the window of length size that
\* starts at offset (i - 1) * (size - overlap), cut where the text ends, the
\* windows reach the end of the text, and every chunk after the first
\* begins with the last overlap characters of the chunk before it.
C13_WindowsOverlap ==
    ChunkedWithinSize =>
        LET t == chunked.text
            c == chunked.chunks
            s == chunked.chunk_size
            o == chunked.overlap
        IN  /\ \A i \in 1..Len(c) : c[i] = Window(t, (i - 1) * (s - o), s)
            /\ t # <<>> => c # <<>> /\ (Len(c) - 1) * (s - o) + s >= Len(t)
            /\ \A i \in 2..Len(c) :
                   Len(c[i]) >= o
                   => SubSeq(c[i], 1, o) = SubSeq(c[i - 1], Len(c[i - 1]) - o + 1, Len(c[i - 1]))

\* The text without its first n characters.
DropFirst(t, n) == SubSeq(t, n + 1, Len(t))

\* The chunks joined, each but the first without its first o characters.
RECURSIVE JoinNonOverlap(_, _, _)
JoinNonOverlap(c, o, first) ==
    IF c = <<>> THEN <<>>
    ELSE (IF first THEN Head(c) ELSE DropFirst(Head(c), o))
         \o JoinNonOverlap(Tail(c), o, FALSE)

\* C14: for a text that is not empty, chunk_size > 0 and 0 <= overlap <
\* chunk_size, chunk_text returns, no chunk is longer than chunk_size, and
\* the chunks, each but the first without its first overlap characters,
\* joined give the text back.
C14_ChunksReconstructText ==
    (ChunkedWithinSize /\ chunked.text # <<>>) =>
        /\ \A i \in 1..Len(chunked.chunks) : Len(chunked.chunks[i]) <= chunked.chunk_size
        /\ JoinNonOverlap(chunked.chunks, chunked.overlap, TRUE) = chunked.text

\* C15: every session in SESSIONS was made by an upload that has been
\* answered 200, its ingest having completed without raising; an upload
\* that fails leaves no session.
C15_SessionOnlyAfterSuccessfulUpload ==
    \A r \in Reqs :
        sessions[r] # -1 => h[r].pc = "done" /\ h[r].resp = "200"

\* The upload has several files, one of which is a PDF that PdfReader fails on.
FailsToParse(files) ==
    /\ Len(files) >= 2
    /\ \E i \in 1..Len(files) : files[i].pdf /\ ~files[i].parses

\* C16: an upload of several files of which one fails to parse never gets
\* into ingest_documents, so the store and the index gain nothing from it;
\* its handler ends in a failure, and the store never holds an error text
\* in place of a file.
C16_FailedFileFailsBatch ==
    /\ \A r \in Reqs :
          FailsToParse(h[r].files)
          => /\ ~InService(r)
             /\ h[r].pc = "ingested" => h[r].raised # "none"
    /\ \A i \in 1..Len(documents) : documents[i] # ErrorText

\* Every file of the upload is read, and holds no text.
NoTextIn(files) ==
    /\ files # <<>>
    /\ \A i \in 1..Len(files) : files[i].parses /\ files[i].text = <<>>

\* C17: an upload whose files hold no text never gets into
\* ingest_documents, so the store and the index stay as they are, and its
\* handler ends in a failure (an upload without files is turned away before
\* its files are looked at); and the store never holds an empty chunk.
C17_EmptyUploadFails ==
    /\ \A r \in Reqs :
          NoTextIn(h[r].files)
          => /\ ~InService(r)
             /\ h[r].pc = "ingested" => h[r].raised # "none"
    /\ \A i \in 1..Len(documents) : documents[i] # <<>>

(***************************************************************************)
(* ingest_upload_files called directly, as the unit test calls it, in a    *)
(* process that holds a service of its own besides the module's RAG.       *)
(***************************************************************************)
\* The files handed to ingest_upload_files: those of an upload, and PDFs
\* that PdfReader reads, with and without text.
CallFiles ==
    Files \cup { [pdf |-> TRUE, parses |-> TRUE, text |-> <<"a">>],
                 [pdf |-> TRUE, parses |-> TRUE, text |-> <<>>] }

CallUploads == SeqsUpTo(CallFiles, MaxFiles)

\* The loop of ingest_upload_files over the files, run to its end by the
\* caller's event loop: "await read_text_fileobj(f)" awaits the str a plain
\* function returned, and PdfReader raises on a PDF it cannot read.
RECURSIVE IngestUploadFilesLoop(_)
IngestUploadFilesLoop(files) ==
    IF files = <<>> THEN [raised |-> "none", chunks |-> <<>>]
    ELSE LET f == Head(files)
         IN  IF ~f.pdf THEN [raised |-> "TypeError", chunks |-> <<>>]
             ELSE IF ~f.parses THEN [raised |-> "PdfReadError", chunks |-> <<>>]
             ELSE LET rest == IngestUploadFilesLoop(Tail(files))
                  IN  [raised |-> rest.raised,
                       chunks |-> IF rest.raised = "none"
                                  THEN ChunksOf(f.text) \o rest.chunks
                                  ELSE <<>>]

\* ingest_upload_files called with nargs positional arguments: what it
\* raises or returns, and the module's RAG afterwards.
IngestUploadFiles(files, nargs, rag, emb) ==
    IF nargs # IngestUploadFilesParams
    THEN [raised |-> "TypeError", returned |-> "none", rag |-> rag]
    ELSE LET got == IngestUploadFilesLoop(files)
         IN  IF got.raised # "none"
             THEN [raised |-> got.raised, returned |-> "none", rag |-> rag]
             ELSE IF got.chunks = <<>>
             THEN [raised |-> "ValueError", returned |-> "none", rag |-> rag]
             ELSE LET r == IngestDocuments(rag.documents, rag.index, emb, got.chunks)
                      saved == IF r.saves
                               THEN SaveIndex(r.index, r.documents, rag.diskIndex,
                                              rag.diskDocs, "end")
                               ELSE [diskIndex |-> rag.diskIndex, diskDocs |-> rag.diskDocs]
                  IN  [raised |-> r.raised,
                       returned |-> IF r.raised = "none" THEN "default" ELSE "none",
                       rag |-> [documents |-> r.documents, index |-> r.index,
                                diskIndex |-> saved.diskIndex,
                                diskDocs |-> saved.diskDocs]]

InitCall ==
    /\ proc = "up"
    /\ documents = <<>>
    /\ loaderDocs = <<>>
    /\ aliased = TRUE
    /\ index = NoIndex
    /\ embedder \in {0, 1}
    /\ llm = FALSE
    /\ diskIndex = NoIndex
    /\ diskDocs = NoFile
    /\ ret = NoRet
    /\ ingested = FALSE
    /\ persisted = NothingPersisted
    /\ NoServer
    /\ NoLib

\* "await ingest_upload_files(files)" and
\* "await ingest_upload_files(files, rag_service)", rag_service being the
\* caller's own service.
CallIngestUploadFiles(files, nargs) ==
    /\ Len(RAG.documents) + Len(files) <= MaxDocs
    /\ LET out == IngestUploadFiles(files, nargs, RAG, embedder)
       IN  /\ RAG' = out.rag
           /\ ret' = [op |-> "ingest_upload_files", raised |-> out.raised,
                      returned |-> out.returned, files |-> files, nargs |-> nargs]
    /\ UNCHANGED <<proc, documents, loaderDocs, aliased, index, embedder, llm,
                   diskIndex, diskDocs, ingested, persisted, handlerVars, chunked>>

NextCall == \E files \in CallUploads, nargs \in {1, 2} : CallIngestUploadFiles(files, nargs)

SpecCall == InitCall /\ [][NextCall]_vars

\* C18: ingest_upload_files(upload_files, rag_service), given one readable
\* text file and a service with an embedder, returns "default"; the service
\* passed has the file's text at the end of its store and one vector more in
\* its index; and the module's RAG is as it was.
C18_IngestsIntoPassedService ==
    [][ (/\ ret'.op = "ingest_upload_files"
         /\ ret'.nargs = 2
         /\ ret'.files = <<ReadableText>>
         /\ embedder # 0)
        => /\ ret'.raised = "none"
           /\ ret'.returned = "default"
           /\ documents' = documents \o <<ReadableText.text>>
           /\ Len(index'.vecs) = Len(index.vecs) + 1
           /\ RAG' = RAG ]_vars

\* C19: in a running process the texts ingest_documents appends to and
\* _save_index writes (RAGService.documents) are the texts search reads
\* (ModelLoader.documents).
C19_OneDocumentSequence == proc = "up" => documents = loaderDocs

====
